---------------------------- MODULE Spec2Model ----------------------------
(***************************************************************************)
(* Model of the back-test engine SHFEFuturesBacktest of src/app.py: a     *)
(* dual moving-average strategy run bar by bar over one futures symbol.    *)
(*                                                                         *)
(* Units.  Python computes in binary floating point; the model computes    *)
(* the same expressions exactly, in integers:                              *)
(*   - prices, price ticks and slippage are whole yuan;                    *)
(*   - money (cash, margin, commission, profit, equity) is counted in      *)
(*     1/MoneyScale yuan, so that the default commission rate 0.0001 is    *)
(*     the integer 1;                                                      *)
(*   - margin_ratio is counted in percent (0.10 is 10);                    *)
(*   - commission_rate is counted in 1/MoneyScale (0.0001 is 1);           *)
(*   - a moving average is kept multiplied by fast_window * slow_window,   *)
(*     which preserves the comparisons the strategy makes.                 *)
(* A parameter that set_params leaves alone (None) is the model value      *)
(* None.                                                                   *)
(*                                                                         *)
(* Inputs.  Closes are positive whole numbers and the margin ratio is      *)
(* positive, so margin_per_contract is never 0.  Non-positive capital,     *)
(* fast_window >= slow_window and a negative slippage are among the        *)
(* inputs, since nothing in the engine refuses them.                       *)
(*                                                                         *)
(* Steps.  run_backtest is followed call by call: calculate_ma, then for   *)
(* each kept row the _close and the _open of the branch taken (if any),    *)
(* then _update_asset; pc and idx hold its position.                       *)
(***************************************************************************)
EXTENDS Integers, Sequences, FiniteSets, TLC

\* ------------------------------------------------------------------ bounds
MaxBars == 4
MaxPrice == 3
MaxWindow == 2
\* the model follows a run while |cash| is at most MaxCash (in money), which
\* keeps every product below 2^31
MaxCash == 30000000

\* ------------------------------------------------------- units and inputs
MoneyScale == 10000
PercentScale == 100

\* an optional argument: None, or Some(v)
None == <<>>
Some(v) == <<v>>

\* symbols are sequences of characters, so that symbol[:2] and
\* '"RB" in symbol' are computed as Python computes them
RB8 == <<"R", "B", "8">>
BU8 == <<"B", "U", "8">>
CU8 == <<"C", "U", "8">>
Symbols == {RB8, BU8, CU8}

Capitals == {0, 20 * MoneyScale}

MarginRatios == {None, Some(50)}
CommissionRates == {None, Some(33)}
Slippages == {None, Some(0), Some(-1)}

Closes == 1..MaxPrice
Windows == 1..MaxWindow

\* ------------------------------------------------------------ arithmetic
\* Python round(n / d) for d > 0: nearest integer, ties to the even one
RoundHalfEven(n, d) ==
    LET q == n \div d
        r == n - q * d
    IN  IF 2 * r < d THEN q
        ELSE IF 2 * r > d THEN q + 1
        ELSE IF q % 2 = 0 THEN q ELSE q + 1

\* Python int(n / d) for d > 0: truncation toward zero
TruncDiv(n, d) == IF n >= 0 THEN n \div d ELSE -((-n) \div d)

Max(a, b) == IF a >= b THEN a ELSE b

Abs(n) == IF n >= 0 THEN n ELSE -n

\* Python round(x, 2) of an amount of money
Round2(x) == RoundHalfEven(x, MoneyScale \div 100) * (MoneyScale \div 100)

RECURSIVE SumCloses(_, _, _)
SumCloses(bars, lo, hi) ==
    IF lo > hi THEN 0 ELSE bars[hi].close + SumCloses(bars, lo, hi - 1)

\* --------------------------------------------------------- contract table
\* pricetick of the table is in 1/CentiPerYuan yuan (0.02 yuan is 2)
CentiPerYuan == 100

Spec_(cs, tick) == [contract_size |-> cs, pricetick |-> tick]

futures_specs ==
    (<<"R", "B">> :> Spec_(10, 100)) @@ (<<"H", "C">> :> Spec_(10, 100)) @@
    (<<"C", "U">> :> Spec_(5, 1000)) @@ (<<"A", "L">> :> Spec_(5, 500)) @@
    (<<"Z", "N">> :> Spec_(5, 500)) @@ (<<"P", "B">> :> Spec_(5, 500)) @@
    (<<"N", "I">> :> Spec_(1, 1000)) @@ (<<"S", "N">> :> Spec_(1, 1000)) @@
    (<<"A", "U">> :> Spec_(1000, 2)) @@ (<<"A", "G">> :> Spec_(15, 100)) @@
    (<<"R", "U">> :> Spec_(10, 500)) @@ (<<"B", "U">> :> Spec_(10, 200)) @@
    (<<"F", "U">> :> Spec_(10, 100)) @@ (<<"S", "P">> :> Spec_(10, 200))

\* symbol[:2]
symbol_prefix(sym) == SubSeq(sym, 1, IF Len(sym) < 2 THEN Len(sym) ELSE 2)

\* the contract rules __init__ resolves for a symbol
ContractSpec_UnitDefault(sym) ==
    IF symbol_prefix(sym) \in DOMAIN futures_specs
    THEN futures_specs[symbol_prefix(sym)]
    ELSE Spec_(1, 100)
ContractSpec(sym) ==
    IF symbol_prefix(sym) \in DOMAIN futures_specs
    THEN futures_specs[symbol_prefix(sym)]
    ELSE Spec_(10, 100)

\* "RB" in symbol
HasRB(sym) == \E i \in 1..(Len(sym) - 1) : sym[i] = "R" /\ sym[i + 1] = "B"

\* ------------------------------------------------------------------ state
VARIABLES
    df,               \* the caller's bars, of which __init__ takes a copy
    data,             \* self.data: the bars, after calculate_ma the rows kept
    symbol,           \* self.symbol
    initial_capital,  \* self.initial_capital
    contract_size,    \* self.contract_size
    pricetick,        \* self.pricetick
    margin_ratio,     \* self.margin_ratio, percent
    commission_rate,  \* self.commission_rate, 1/MoneyScale
    slippage,         \* self.slippage
    cash,             \* self.cash
    margin,           \* self.margin
    holdings,         \* self.holdings: lots, + long, - short
    total_asset,      \* self.total_asset: the equity curve
    trade_records,    \* self.trade_records: the trade log
    fast_window,      \* run_backtest's argument, 0 before the call
    slow_window,      \* run_backtest's argument, 0 before the call
    idx,              \* position of run_backtest's loop in self.data
    pc,               \* where the caller and run_backtest are
    charged,          \* history: every commission _open and _close charged
    realized,         \* history: every profit _close realized
    spec,             \* __init__'s contract rules for the symbol, tick in 1/100
    metrics           \* the caller's metrics = _get_metrics(), None before it

vars == <<df, data, symbol, initial_capital, contract_size, pricetick, margin_ratio,
          commission_rate, slippage, cash, margin, holdings, total_asset,
          trade_records, fast_window, slow_window, idx, pc, charged, realized,
          spec, metrics>>

config == <<symbol, initial_capital, contract_size, pricetick, margin_ratio,
            commission_rate, slippage, fast_window, slow_window, spec, metrics>>

\* every bar sequence of at most MaxBars bars; datetime is the bar's number
BarSequences ==
    UNION { { [i \in 1..n |-> [datetime |-> i, close |-> c[i]]] :
              c \in [1..n -> Closes] } : n \in 0..MaxBars }

\* __init__(data, symbol, initial_capital)
Init ==
    /\ df \in BarSequences
    /\ data = df
    /\ symbol \in Symbols
    /\ initial_capital \in Capitals
    /\ spec = ContractSpec(symbol)
    /\ contract_size = spec.contract_size
    /\ pricetick = spec.pricetick \div CentiPerYuan
    /\ margin_ratio = 10
    /\ commission_rate = 1
    /\ slippage = pricetick * 2
    /\ cash = initial_capital
    /\ margin = 0
    /\ holdings = 0
    /\ total_asset = <<initial_capital>>
    /\ trade_records = <<>>
    /\ fast_window = 0
    /\ slow_window = 0
    /\ idx = 0
    /\ pc = "constructed"
    /\ charged = 0
    /\ realized = 0
    /\ metrics = None

\* set_params(margin_ratio, commission_rate, slippage), called once by the
\* caller before run_backtest
set_params ==
    /\ pc = "constructed"
    /\ \E mr \in MarginRatios, cr \in CommissionRates, sl \in Slippages :
         /\ margin_ratio' = IF mr # None THEN mr[1] ELSE margin_ratio
         /\ commission_rate' = IF cr # None THEN cr[1] ELSE commission_rate
         /\ slippage' = IF sl # None THEN sl[1] ELSE slippage
    /\ pc' = "configured"
    /\ UNCHANGED <<df, data, symbol, initial_capital, contract_size, pricetick, cash,
                   margin, holdings, total_asset, trade_records, fast_window,
                   slow_window, idx, charged, realized, spec, metrics>>

\* close.rolling(w).mean() at bar i, times w: defined from bar w on
RollingSum(bars, i, w) == SumCloses(bars, i - w + 1, i)

\* the rows calculate_ma keeps (dropna), with both averages times fast * slow
WithMa(bars, fast, slow) ==
    LET first == Max(fast, slow)
        n == Len(bars)
    IN  [k \in 1..(IF n >= first THEN n - first + 1 ELSE 0) |->
            LET i == k + first - 1
            IN  [datetime |-> bars[i].datetime,
                 close |-> bars[i].close,
                 ma_fast |-> RollingSum(bars, i, fast) * slow,
                 ma_slow |-> RollingSum(bars, i, slow) * fast]]

\* run_backtest(fast_window, slow_window) up to its loop: calculate_ma
calculate_ma ==
    /\ pc = "configured"
    /\ \E fast \in Windows, slow \in Windows :
         /\ fast_window' = fast
         /\ slow_window' = slow
         /\ data' = WithMa(data, fast, slow)
    /\ idx' = 1
    /\ pc' = IF Len(data') >= 1 THEN "bar" ELSE "done"
    /\ UNCHANGED <<df, symbol, initial_capital, contract_size, pricetick,
                   margin_ratio, commission_rate, slippage, cash, margin, holdings, total_asset,
                   trade_records, charged, realized, spec, metrics>>

\* ------------------------------------------------------------ the ledger
\* round(exec_price / self.pricetick) * self.pricetick
RoundToTick_None(p) == p
RoundToTick(p) == RoundHalfEven(p, pricetick) * pricetick

\* price * volume * contract_size * margin_ratio, in money
MarginOf(p, vol) == p * vol * contract_size * margin_ratio * (MoneyScale \div PercentScale)

\* price * volume * contract_size * rate, in money
CommissionOf(p, vol, rate) == p * vol * contract_size * rate

\* the commission floor of _open and _close: 5 yuan
MinCommission == 5 * MoneyScale

\* (a - b) * volume * contract_size, in money
ProfitOf(a, b, vol) == (a - b) * vol * contract_size * MoneyScale

\* int(self.cash * 0.9 / margin_per_contract)
MaxVol_FromCapital(price) == TruncDiv(initial_capital * 9, 10 * MarginOf(price, 1))
MaxVol_AllCash(price) == TruncDiv(cash * 10, 10 * MarginOf(price, 1))
MaxVol(price) == TruncDiv(cash * 9, 10 * MarginOf(price, 1))

\* the price of the latest opening record of this symbol and direction, 0
\* when the log holds none (the loop over reversed(self.trade_records))
LastOpenPrice(log, direction) ==
    LET hits == { i \in 1..Len(log) : /\ log[i].action = "open"
                                      /\ log[i].symbol = symbol
                                      /\ log[i].direction = direction }
    IN  IF hits = {} THEN 0
        ELSE log[CHOOSE i \in hits : \A j \in hits : j <= i].price

\* _open with "if max_vol < 0" for "if max_vol <= 0"
_open_ZeroLots(direction, price, row) ==
    LET max_vol == MaxVol(price)
        exec_price == RoundToTick(IF direction = "long" THEN price + slippage
                                                         ELSE price - slippage)
        commission == Max(CommissionOf(exec_price, max_vol, commission_rate),
                          MinCommission)
        margin_ == MarginOf(exec_price, max_vol)
    IN  IF max_vol < 0
        THEN UNCHANGED <<cash, margin, holdings, trade_records, charged>>
        ELSE /\ cash' = cash - (margin_ + commission)
             /\ margin' = margin + margin_
             /\ holdings' = IF direction = "long" THEN max_vol ELSE -max_vol
             /\ trade_records' = Append(trade_records,
                    [datetime |-> row.datetime, symbol |-> symbol,
                     action |-> "open", direction |-> direction,
                     price |-> exec_price, volume |-> max_vol,
                     commission |-> Round2(commission),
                     margin |-> Round2(margin_)])
             /\ charged' = charged + commission

\* _open(direction, price, row)
_open(direction, price, row) ==
    LET max_vol == MaxVol(price)
        exec_price == RoundToTick(IF direction = "long" THEN price + slippage
                                                         ELSE price - slippage)
        commission == Max(CommissionOf(exec_price, max_vol, commission_rate),
                          MinCommission)
        margin_ == MarginOf(exec_price, max_vol)
    IN  IF max_vol <= 0
        THEN UNCHANGED <<cash, margin, holdings, trade_records, charged>>
        ELSE /\ cash' = cash - (margin_ + commission)
             /\ margin' = margin + margin_
             /\ holdings' = IF direction = "long" THEN max_vol ELSE -max_vol
             /\ trade_records' = Append(trade_records,
                    [datetime |-> row.datetime, symbol |-> symbol,
                     action |-> "open", direction |-> direction,
                     price |-> exec_price, volume |-> max_vol,
                     commission |-> Round2(commission),
                     margin |-> Round2(margin_)])
             /\ charged' = charged + commission

\* _close(price, row)
_close_SignedVolume(price, row) ==
    LET vol == Abs(holdings)
        direction == IF holdings > 0 THEN "long" ELSE "short"
        exec_price == RoundToTick(IF direction = "long" THEN price - slippage
                                                         ELSE price + slippage)
        rate == IF HasRB(symbol) THEN commission_rate * 5 ELSE commission_rate
        commission == Max(CommissionOf(exec_price, vol, rate), MinCommission)
        found == LastOpenPrice(trade_records, direction)
        open_price == IF found = 0 THEN price ELSE found
        profit == IF direction = "long" THEN ProfitOf(exec_price, open_price, vol)
                                        ELSE ProfitOf(open_price, exec_price, vol)
    IN  IF holdings = 0
        THEN UNCHANGED <<cash, margin, holdings, trade_records, charged, realized>>
        ELSE /\ cash' = cash + (margin + profit - commission)
             /\ margin' = 0
             /\ holdings' = 0
             /\ trade_records' = Append(trade_records,
                    [datetime |-> row.datetime, symbol |-> symbol,
                     action |-> "close", direction |-> direction,
                     price |-> exec_price, volume |-> holdings,
                     commission |-> Round2(commission),
                     profit |-> Round2(profit)])
             /\ charged' = charged + commission
             /\ realized' = realized + profit
_close_LeavesMargin(price, row) ==
    LET vol == Abs(holdings)
        direction == IF holdings > 0 THEN "long" ELSE "short"
        exec_price == RoundToTick(IF direction = "long" THEN price - slippage
                                                         ELSE price + slippage)
        rate == IF HasRB(symbol) THEN commission_rate * 5 ELSE commission_rate
        commission == Max(CommissionOf(exec_price, vol, rate), MinCommission)
        found == LastOpenPrice(trade_records, direction)
        open_price == IF found = 0 THEN price ELSE found
        profit == IF direction = "long" THEN ProfitOf(exec_price, open_price, vol)
                                        ELSE ProfitOf(open_price, exec_price, vol)
    IN  IF holdings = 0
        THEN UNCHANGED <<cash, margin, holdings, trade_records, charged, realized>>
        ELSE /\ cash' = cash + (margin + profit - commission)
             /\ margin' = margin
             /\ holdings' = 0
             /\ trade_records' = Append(trade_records,
                    [datetime |-> row.datetime, symbol |-> symbol,
                     action |-> "close", direction |-> direction,
                     price |-> exec_price, volume |-> vol,
                     commission |-> Round2(commission),
                     profit |-> Round2(profit)])
             /\ charged' = charged + commission
             /\ realized' = realized + profit
_close(price, row) ==
    LET vol == Abs(holdings)
        direction == IF holdings > 0 THEN "long" ELSE "short"
        exec_price == RoundToTick(IF direction = "long" THEN price - slippage
                                                         ELSE price + slippage)
        rate == IF HasRB(symbol) THEN commission_rate * 5 ELSE commission_rate
        commission == Max(CommissionOf(exec_price, vol, rate), MinCommission)
        found == LastOpenPrice(trade_records, direction)
        open_price == IF found = 0 THEN price ELSE found
        profit == IF direction = "long" THEN ProfitOf(exec_price, open_price, vol)
                                        ELSE ProfitOf(open_price, exec_price, vol)
    IN  IF holdings = 0
        THEN UNCHANGED <<cash, margin, holdings, trade_records, charged, realized>>
        ELSE /\ cash' = cash + (margin + profit - commission)
             /\ margin' = 0
             /\ holdings' = 0
             /\ trade_records' = Append(trade_records,
                    [datetime |-> row.datetime, symbol |-> symbol,
                     action |-> "close", direction |-> direction,
                     price |-> exec_price, volume |-> vol,
                     commission |-> Round2(commission),
                     profit |-> Round2(profit)])
             /\ charged' = charged + commission
             /\ realized' = realized + profit

\* floating_profit with the long formula used for both directions
FloatingProfit_LongOnly(price) ==
    IF holdings # 0 /\ trade_records # <<>>
    THEN LET direction == IF holdings > 0 THEN "long" ELSE "short"
             open_price == LastOpenPrice(trade_records, direction)
         IN  IF open_price > 0
             THEN ProfitOf(open_price, price, Abs(holdings))
             ELSE 0
    ELSE 0

\* floating_profit of _update_asset(price)
FloatingProfit(price) ==
    IF holdings # 0 /\ trade_records # <<>>
    THEN LET direction == IF holdings > 0 THEN "long" ELSE "short"
             open_price == LastOpenPrice(trade_records, direction)
         IN  IF open_price > 0
             THEN IF direction = "long"
                  THEN ProfitOf(price, open_price, holdings)
                  ELSE ProfitOf(open_price, price, Abs(holdings))
             ELSE 0
    ELSE 0

\* _update_asset appending only while a position is open
_update_asset_SkipFlat(price) ==
    total_asset' = IF holdings = 0 THEN total_asset
                   ELSE Append(total_asset, cash + margin + FloatingProfit(price))

\* _update_asset(price)
_update_asset(price) ==
    total_asset' = Append(total_asset, cash + margin + FloatingProfit(price))

\* ------------------------------------------------- the loop of run_backtest
Row == data[idx]

\* the long branch without "and self.holdings <= 0"
GoLong_Pyramid(row) == row.ma_fast > row.ma_slow

\* ma_fast > ma_slow and self.holdings <= 0
GoLong(row) == row.ma_fast > row.ma_slow /\ holdings <= 0

\* the short branch with "ma_fast <= ma_slow"
GoShort_OrEqual(row) == ~GoLong(row) /\ row.ma_fast <= row.ma_slow /\ holdings >= 0

\* elif ma_fast < ma_slow and self.holdings >= 0
GoShort(row) == ~GoLong(row) /\ row.ma_fast < row.ma_slow /\ holdings >= 0

\* the branches without their "self._close(price, row)"
ClosesFirst_Never(row) == FALSE

\* the position the taken branch closes first
ClosesFirst(row) == \/ GoLong(row) /\ holdings < 0
                    \/ GoShort(row) /\ holdings > 0

\* both branches opening "long"
BranchDirection_AlwaysLong(row) == "long"

\* the direction the taken branch opens
BranchDirection(row) == IF row.ma_fast > row.ma_slow THEN "long" ELSE "short"

\* run_backtest at a bar whose branch closes the opposite position first
CloseStep ==
    /\ pc = "bar"
    /\ ClosesFirst(Row)
    /\ _close(Row.close, Row)
    /\ pc' = "open"
    /\ UNCHANGED <<df, data, config, total_asset, idx>>

\* run_backtest at the _open of the taken branch
OpenStep ==
    /\ Abs(cash) <= MaxCash
    /\ IF pc = "bar" THEN (GoLong(Row) \/ GoShort(Row)) /\ ~ClosesFirst(Row)
                     ELSE pc = "open"
    /\ _open(BranchDirection(Row), Row.close, Row)
    /\ pc' = "update"
    /\ UNCHANGED <<df, data, config, total_asset, idx, realized>>

\* run_backtest at the end of the loop body, and the step to the next row
UpdateStep ==
    /\ IF pc = "bar" THEN ~GoLong(Row) /\ ~GoShort(Row) ELSE pc = "update"
    /\ _update_asset(Row.close)
    /\ idx' = idx + 1
    /\ pc' = IF idx < Len(data) THEN "bar" ELSE "done"
    /\ UNCHANGED <<df, data, config, cash, margin, holdings, trade_records,
                   charged, realized>>

Next == set_params \/ calculate_ma \/ CloseStep \/ OpenStep \/ UpdateStep

Spec == Init /\ [][Next]_vars

\* ---------------------------------------------------- what the claims name
Last(seq) == seq[Len(seq)]

\* the row the loop processed last, once a row has been processed
Processed == pc \in {"bar", "done"} /\ idx > 1
LastRow == data[idx - 1]

\* the execution price recorded by the Open of the live position
PositionOpenPrice == Last(trade_records).price

\* unrealized P&L of the live position against a close price
UnrealizedPnL(price) ==
    IF holdings = 0 THEN 0
    ELSE IF holdings > 0
         THEN (price - PositionOpenPrice) * holdings * contract_size * MoneyScale
         ELSE (PositionOpenPrice - price) * (-holdings) * contract_size * MoneyScale

\* a step of the model that is the call of _open
IsOpenCall == pc' = "update"

\* a step of the model that is the call of _close
IsCloseCall == pc' = "open"

\* a step of the model that is the call of _update_asset
IsUpdateCall == pc \in {"bar", "update"} /\ pc' \in {"bar", "done"}

Appended(old, new) == Len(new) = Len(old) + 1 /\ SubSeq(new, 1, Len(old)) = old

\* a configuration the specification admits
ValidConfig ==
    /\ initial_capital > 0
    /\ commission_rate >= 0
    /\ slippage >= 0
    /\ pc \notin {"constructed", "configured"} => fast_window < slow_window

\* C1: after the last processed bar, final equity minus initial capital is
\* the sum of the realized profits minus the sum of the commissions charged
\* plus the unrealized P&L of the position still open.  Stated here on the
\* runs of a valid configuration, of which the claim's "every run" is more.
C1_LedgerConservation ==
    pc = "done" /\ Len(data) >= 1 /\ ValidConfig =>
        Last(total_asset) - initial_capital
            = realized - charged + UnrealizedPnL(Last(data).close)

\* C2: _open is only ever executed while the position is flat, and the
\* position never goes from long to short or from short to long in one step.
C2_OnePosition ==
    [][ /\ IsOpenCall => holdings = 0
        /\ ~(holdings > 0 /\ holdings' < 0)
        /\ ~(holdings < 0 /\ holdings' > 0) ]_vars

\* C2 witness: the Open of a reversal has acted (open, close, open)
C2_Witness ==
    /\ pc = "update"
    /\ holdings # 0
    /\ Len(trade_records) >= 3
    /\ Last(trade_records).action = "open"
    /\ trade_records[Len(trade_records) - 1].action = "close"

\* C3: the equity point appended for a bar is cash + margin + unrealized P&L
\* of the live position at that bar's close, whatever open price is recorded.
\* Stated here on the runs of a valid configuration.
C3_EquityPoint ==
    Processed /\ ValidConfig => Last(total_asset) = cash + margin + UnrealizedPnL(LastRow.close)

\* C4: total_asset starts as [initial_capital], gains exactly one point per
\* processed bar, has N_effective + 1 points after the run, and only
\* _update_asset changes it.
C4_Length ==
    /\ total_asset[1] = initial_capital
    /\ pc \in {"constructed", "configured"} => Len(total_asset) = 1
    /\ pc \in {"bar", "open", "update"} => Len(total_asset) = idx
    /\ pc = "done" => Len(total_asset) = Len(data) + 1

C4_OnePointPerBar ==
    /\ []C4_Length
    /\ [][ /\ IsUpdateCall => Appended(total_asset, total_asset')
           /\ ~IsUpdateCall => total_asset' = total_asset ]_vars

\* C4 witness: a finished run with a bar that traded and a bar that did not
C4_Witness ==
    /\ pc = "done"
    /\ Len(data) >= 2
    /\ Len(trade_records) = 1
    /\ Len(total_asset) = Len(data) + 1
    /\ Len(data) < Len(df)

\* C5: on a reversal bar the Close comes first, the Open of the new
\* direction follows on the same bar, and both precede the bar's equity
\* point; after a bar with fast > slow the position is not short, after a
\* bar with fast < slow it is not long.
C5_AfterBar ==
    Processed => /\ LastRow.ma_fast > LastRow.ma_slow => holdings >= 0
                 /\ LastRow.ma_fast < LastRow.ma_slow => holdings <= 0

C5_CloseFirst ==
    /\ pc = "bar" /\ Row.ma_fast > Row.ma_slow /\ holdings < 0 => IsCloseCall
    /\ pc = "bar" /\ Row.ma_fast < Row.ma_slow /\ holdings > 0 => IsCloseCall
    /\ IsCloseCall =>
          /\ pc = "bar"
          /\ holdings # 0 /\ holdings' = 0
          /\ Appended(trade_records, trade_records')
          /\ Last(trade_records').action = "close"
          /\ Last(trade_records').datetime = Row.datetime
          /\ Len(total_asset') = idx
    /\ pc = "open" =>
          /\ IsOpenCall
          /\ Len(total_asset') = idx
          /\ trade_records' # trade_records =>
                /\ Appended(trade_records, trade_records')
                /\ Last(trade_records').action = "open"
                /\ Last(trade_records').datetime = Row.datetime
                /\ Last(trade_records').direction
                     = (IF Row.ma_fast > Row.ma_slow THEN "long" ELSE "short")

C5_ReversalOrder == []C5_AfterBar /\ [][C5_CloseFirst]_vars

\* C5 witness: a bar on which a Close and then an Open were recorded, its
\* equity point not yet appended
C5_Witness ==
    /\ pc = "update"
    /\ Len(trade_records) >= 3
    /\ Last(trade_records).action = "open"
    /\ trade_records[Len(trade_records) - 1].action = "close"
    /\ trade_records[Len(trade_records) - 1].datetime = Row.datetime
    /\ Last(trade_records).datetime = Row.datetime
    /\ Last(trade_records).direction # trade_records[Len(trade_records) - 1].direction
    /\ Len(total_asset) = idx

\* C6: a bar with fast = slow, or whose direction the position already has,
\* leaves cash, margin, holdings and the trade log alone and only appends one
\* equity point.
NoActionBar(row) ==
    \/ row.ma_fast = row.ma_slow
    \/ row.ma_fast > row.ma_slow /\ holdings > 0
    \/ row.ma_fast < row.ma_slow /\ holdings < 0

C6_NoAction ==
    [][ pc = "bar" /\ NoActionBar(Row) =>
          /\ UNCHANGED <<cash, margin, holdings, trade_records>>
          /\ Appended(total_asset, total_asset')
          /\ pc' \in {"bar", "done"} ]_vars

\* C6 witness: a bar passed with the position already long and fast > slow
C6_Witness ==
    /\ Processed
    /\ holdings > 0
    /\ LastRow.ma_fast > LastRow.ma_slow
    /\ Last(trade_records).datetime < LastRow.datetime

\* C7: an Open whose size floor(0.9 * cash / (price * multiplier * ratio))
\* is <= 0 records nothing, changes no account state, leaves the position
\* flat and lets the run go on to the bar's equity point.
ClaimedSize(price) ==
    (cash * 9) \div (10 * price * contract_size * margin_ratio
                        * (MoneyScale \div PercentScale))

C7_SilentAbort ==
    /\ [][ IsOpenCall /\ ClaimedSize(Row.close) <= 0 =>
             /\ UNCHANGED <<cash, margin, holdings, trade_records, total_asset>>
             /\ holdings' = 0 ]_vars
    /\ [](pc = "update" => ENABLED UpdateStep)

\* C7 witness: an Open was called with capital but not enough for one lot
C7_Witness ==
    /\ pc = "update"
    /\ holdings = 0
    /\ cash > 0
    /\ ClaimedSize(Row.close) <= 0

\* C8: a strictly increasing close sequence, with capital for at least one
\* lot, ends with exactly one Open(long) and no Close, the position open,
\* and final equity = initial capital - margin - commission + unrealized
\* profit at the last close.
StrictlyIncreasing == \A i \in 1..(Len(df) - 1) : df[i].close < df[i + 1].close

ScenarioB ==
    /\ pc = "done"
    /\ Len(data) >= 1
    /\ fast_window < slow_window
    /\ StrictlyIncreasing
    /\ TruncDiv(initial_capital * 9,
                10 * data[1].close * contract_size * margin_ratio
                   * (MoneyScale \div PercentScale)) >= 1

OneOpenLong ==
    /\ Len(trade_records) = 1
    /\ trade_records[1].action = "open"
    /\ trade_records[1].direction = "long"
    /\ holdings > 0

ConstantCloses == \A i \in 1..Len(df) : df[i].close = df[1].close

C9_ScenarioA ==
    ConstantCloses =>
        /\ trade_records = <<>>
        /\ \A k \in 1..Len(total_asset) : total_asset[k] = initial_capital

\* C9 witness: a finished run over constant closes with capital
C9_Witness ==
    /\ pc = "done"
    /\ ConstantCloses
    /\ initial_capital > 0
    /\ fast_window < slow_window
    /\ Len(total_asset) >= 3

\* C10: with a non-positive capital, fast >= slow, a negative commission
\* rate or a negative slippage no run starts: no trade, no equity point.
C10_Rejected ==
    ~ValidConfig => trade_records = <<>> /\ Len(total_asset) = 1


\* the sum of the w closes of the input that end at input bar i
RECURSIVE WindowSum(_, _)
WindowSum(i, w) == IF w = 0 THEN 0 ELSE df[i].close + WindowSum(i - 1, w - 1)

\* the number of bars that reach the decision logic, as the claim counts them
N_effective ==
    IF Len(df) >= slow_window THEN Len(df) - slow_window + 1 ELSE 0

\* C12: once the averages are computed, exactly the first slow_window - 1
\* input bars are excluded and nothing else: the N_effective kept rows are
\* the input bars from bar slow_window on, in order, each with the averages
\* of the bars that end at it; no excluded bar produces a trade record, and
\* the equity curve holds a point for kept bars only.
C12_Truncation ==
    pc \notin {"constructed", "configured"} =>
        /\ Len(data) = N_effective
        /\ \A k \in 1..Len(data) :
             LET i == k + slow_window - 1
             IN  /\ data[k].datetime = df[i].datetime
                 /\ data[k].close = df[i].close
                 /\ data[k].ma_fast = WindowSum(i, fast_window) * slow_window
                 /\ data[k].ma_slow = WindowSum(i, slow_window) * fast_window
        /\ \A j \in 1..Len(trade_records) :
             trade_records[j].datetime >= slow_window
        /\ Len(total_asset) <= N_effective + 1

\* the same, for the window pairs with fast_window <= slow_window
C12_UpToSlow ==
    fast_window <= slow_window => C12_Truncation


\* ------------------------------------------------------------ the metrics
\* a float the metrics hold: a number, nan, or an infinity with its sign
Num(v) == [kind |-> "num", v |-> v]
NaN == [kind |-> "nan", v |-> 0]
Inf(s) == [kind |-> "inf", v |-> s]

Sign(x) == IF x > 0 THEN 1 ELSE IF x < 0 THEN -1 ELSE 0

\* round(x, 2) keeps 1/HundredthsPerUnit
HundredthsPerUnit == 100

\* the days of a year in annual_return and sharpe
TradingDays == 252

RECURSIVE GCD(_, _)
GCD(a, b) == IF b = 0 THEN a ELSE GCD(b, a % b)

\* the fraction n / d, d > 0, in lowest terms
Reduce(n, d) == LET g == GCD(Abs(n), d) IN <<n \div g, d \div g>>

AddFrac(x, y) == Reduce(x[1] * y[2] + y[1] * x[2], x[2] * y[2])

\* round(n / d * k, 2) in 1/100 for a number, as numpy divides by zero
RoundedRatio(n, d, k) ==
    IF d = 0 THEN IF n = 0 THEN NaN ELSE Inf(Sign(n))
    ELSE LET f == Reduce(Sign(d) * n, Abs(d))
             g == GCD(k * HundredthsPerUnit, f[2])
         IN  Num(RoundHalfEven(f[1] * ((k * HundredthsPerUnit) \div g), f[2] \div g))

\* asset.pct_change() at point i >= 2: a fraction, nan or an infinity
pct_change(asset, i) ==
    LET prev == asset[i - 1]
        cur == asset[i]
    IN  IF prev = 0
        THEN IF cur = 0 THEN [kind |-> "nan", f |-> <<0, 1>>]
                        ELSE [kind |-> "inf", f |-> <<Sign(cur), 1>>]
        ELSE [kind |-> "num", f |-> Reduce(Sign(prev) * (cur - prev), Abs(prev))]

\* the points of asset.pct_change().dropna()
returns(asset) == {i \in 2..Len(asset) : pct_change(asset, i).kind # "nan"}

\* the sum of the finite returns up to point i
RECURSIVE SumReturns(_, _)
SumReturns(asset, i) ==
    IF i < 2 THEN <<0, 1>>
    ELSE AddFrac(SumReturns(asset, i - 1),
                 IF pct_change(asset, i).kind = "num" THEN pct_change(asset, i).f
                 ELSE <<0, 1>>)

\* the signs of the infinite returns
InfSigns(asset) ==
    {pct_change(asset, i).f[1] : i \in {j \in returns(asset) : pct_change(asset, j).kind = "inf"}}

\* returns.std() > 0: a sample deviation exists (two returns or more, all
\* finite) and the returns are not all equal
StdPositive(asset) ==
    /\ Cardinality(returns(asset)) >= 2
    /\ InfSigns(asset) = {}
    /\ \E i, j \in returns(asset) : pct_change(asset, i).f # pct_change(asset, j).f

\* round(returns.mean() * 252 * 100, 2) in 1/100
annual_return(asset) ==
    IF returns(asset) = {} THEN Num(0)
    ELSE IF InfSigns(asset) = {1, -1} THEN NaN
    ELSE IF InfSigns(asset) # {} THEN Inf(CHOOSE s \in InfSigns(asset) : TRUE)
    ELSE LET s == SumReturns(asset, Len(asset))
         IN  RoundedRatio(s[1], s[2] * Cardinality(returns(asset)), TradingDays * 100)

\* returns.mean() / returns.std() * sqrt(252) when returns.std() > 0 and 0
\* otherwise; the quotient is kept by its sign alone
sharpe_Unguarded(asset) ==
    IF returns(asset) = {} THEN Num(0)
    ELSE IF StdPositive(asset)
         THEN [kind |-> "ratio", v |-> Sign(SumReturns(asset, Len(asset))[1])]
         ELSE IF InfSigns(asset) # {} \/ Cardinality(returns(asset)) < 2 THEN NaN
              ELSE IF SumReturns(asset, Len(asset))[1] = 0 THEN NaN
              ELSE Inf(Sign(SumReturns(asset, Len(asset))[1]))
sharpe(asset) ==
    IF returns(asset) = {} THEN Num(0)
    ELSE IF StdPositive(asset)
         THEN [kind |-> "ratio", v |-> Sign(SumReturns(asset, Len(asset))[1])]
         ELSE Num(0)

\* asset.cummax() at point i
RECURSIVE cummax(_, _)
cummax(asset, i) ==
    IF i = 1 THEN asset[1] ELSE Max(cummax(asset, i - 1), asset[i])

\* (asset - cummax) / cummax * 100 at point i, rounded as its minimum is
drawdown(asset, i) ==
    RoundedRatio(asset[i] - cummax(asset, i), cummax(asset, i), 100)

\* round(drawdown.min(), 2): nan points are skipped
max_dd(asset) ==
    LET dd == {drawdown(asset, i) : i \in 1..Len(asset)} \ {NaN}
        nums == {x \in dd : x.kind = "num"}
    IN  IF dd = {} THEN NaN
        ELSE IF Inf(-1) \in dd THEN Inf(-1)
        ELSE IF nums = {} THEN Inf(1)
        ELSE CHOOSE x \in nums : \A y \in nums : x.v <= y.v

\* the trades counted: the Open records
trade_count == Cardinality({i \in 1..Len(trade_records) : trade_records[i].action = "open"})

\* the dictionary _get_metrics returns
Metrics ==
    IF Len(total_asset) <= 1
    THEN [total_return |-> Num(0), annual_return |-> Num(0), sharpe |-> Num(0),
          max_dd |-> Num(0), trade_count |-> 0,
          initial_capital |-> initial_capital, final |-> initial_capital]
    ELSE [total_return |-> RoundedRatio(Last(total_asset) - initial_capital,
                                        initial_capital, 100),
          annual_return |-> annual_return(total_asset),
          sharpe |-> sharpe(total_asset),
          max_dd |-> max_dd(total_asset),
          trade_count |-> trade_count,
          initial_capital |-> initial_capital,
          final |-> Round2(Last(total_asset))]


\* _get_metrics(), as the caller calls it on the engine of a finished run
_get_metrics ==
    /\ pc = "done"
    /\ metrics' = Metrics
    /\ pc' = "reported"
    /\ UNCHANGED <<df, data, symbol, initial_capital, contract_size, pricetick,
                   margin_ratio, commission_rate, slippage, cash, margin, holdings,
                   total_asset, trade_records, fast_window, slow_window, idx,
                   charged, realized, spec>>

\* --------------------------------- the metrics of the engines of small runs
MaxPoints == 3
MaxEquity == 3

\* the curve [100000, 90000, 95000] in thousands
ScenarioC == <<100, 90, 95>>

\* the equity curves of finished runs: the first point is the capital, and
\* with a capital of 0 or less no trade opens and every point equals it
EquityCurves ==
    { c \in UNION { [1..n -> (-1)..MaxEquity] : n \in 1..MaxPoints } :
        c[1] > 0 \/ \A i \in 1..Len(c) : c[i] = c[1] } \cup {ScenarioC}

\* the trade logs beside them: empty, or one round trip
RoundTrip ==
    <<[datetime |-> 1, symbol |-> RB8, action |-> "open", direction |-> "long",
       price |-> 3, volume |-> 1, commission |-> MinCommission, margin |-> 0],
      [datetime |-> 2, symbol |-> RB8, action |-> "close", direction |-> "long",
       price |-> 3, volume |-> 1, commission |-> MinCommission, profit |-> 0]>>

\* an engine whose run has finished flat, with its curve and its log
InitMetrics ==
    /\ total_asset \in EquityCurves
    /\ initial_capital = total_asset[1]
    /\ trade_records \in (IF Len(total_asset) >= 3 THEN {<<>>, RoundTrip} ELSE {<<>>})
    /\ cash = Last(total_asset)
    /\ margin = 0
    /\ holdings = 0
    /\ df = <<>>
    /\ data = <<>>
    /\ symbol = RB8
    /\ spec = ContractSpec(symbol)
    /\ contract_size = spec.contract_size
    /\ pricetick = spec.pricetick \div CentiPerYuan
    /\ margin_ratio = 10
    /\ commission_rate = 1
    /\ slippage = pricetick * 2
    /\ fast_window = 1
    /\ slow_window = 2
    /\ idx = Len(total_asset)
    /\ pc = "done"
    /\ charged = 0
    /\ realized = 0
    /\ metrics = None

NextMetrics == _get_metrics

SpecMetrics == InitMetrics /\ [][NextMetrics]_vars


\* the running maximum of the equity curve at point i
RunningMax(i) ==
    CHOOSE m \in {total_asset[j] : j \in 1..i} : \A j \in 1..i : total_asset[j] <= m

\* (equity[i] / runningMax[i] - 1) * 100 to two decimals, in 1/100
ClaimedDrawdown(i) ==
    LET m == RunningMax(i)
        e == total_asset[i]
    IN  IF m > 0 THEN RoundHalfEven((e - m) * 10000, m)
                 ELSE RoundHalfEven((m - e) * 10000, -m)

NonDecreasing ==
    \A i \in 1..(Len(total_asset) - 1) : total_asset[i] <= total_asset[i + 1]

\* C13: the max drawdown reported for a run's equity curve is a number, the
\* minimum over the points i of (equity[i] / runningMax[i] - 1) * 100; it
\* is never positive, and it is 0 when the curve is non-decreasing.
C13_MaxDrawdown ==
    pc = "reported" =>
        /\ metrics.max_dd.kind = "num"
        /\ metrics.max_dd.v <= 0
        /\ NonDecreasing => metrics.max_dd.v = 0
        /\ (\A i \in 1..Len(total_asset) : RunningMax(i) # 0) =>
              /\ \E i \in 1..Len(total_asset) : metrics.max_dd.v = ClaimedDrawdown(i)
              /\ \A i \in 1..Len(total_asset) : metrics.max_dd.v <= ClaimedDrawdown(i)

\* the same for the runs that start with a positive capital
C13_PositiveCapital ==
    initial_capital > 0 => C13_MaxDrawdown

\* the drawdown example: 100, 90, 95 gives -10.00
C13_ScenarioC ==
    pc = "reported" /\ total_asset = ScenarioC => metrics.max_dd = Num(-1000)


\* with a capital of 0 or less every equity point of a run is the capital
FlatWithoutCapital ==
    initial_capital <= 0 => \A i \in 1..Len(total_asset) : total_asset[i] = initial_capital


\* the points whose percentage change from the point before is defined
DefinedReturns == {i \in 2..Len(total_asset) : total_asset[i - 1] # 0}

\* the returns at points i and j are equal
SameReturn(i, j) ==
    total_asset[i] * total_asset[j - 1] = total_asset[j] * total_asset[i - 1]

FewReturns == Cardinality(DefinedReturns) < 2

ZeroVariance == \A i, j \in DefinedReturns : SameReturn(i, j)

\* C14: with a single-point equity curve every derived metric of the report
\* is 0, and whenever the return series has fewer than 2 returns or zero
\* variance the Sharpe ratio of the report is the number 0.
C14_Sentinels ==
    pc = "reported" =>
        /\ Len(total_asset) <= 1 =>
              /\ metrics.total_return = Num(0)
              /\ metrics.annual_return = Num(0)
              /\ metrics.sharpe = Num(0)
              /\ metrics.max_dd = Num(0)
              /\ metrics.trade_count = 0
        /\ FewReturns \/ ZeroVariance => metrics.sharpe = Num(0)

\* a report on a curve of two returns or more, all equal
C14_Witness ==
    /\ pc = "reported"
    /\ initial_capital > 0
    /\ ~FewReturns
    /\ ZeroVariance
    /\ metrics.sharpe = Num(0)


\* ------------------------------------ construction, for any symbol string
Letters == {"R", "B", "H", "C", "U", "A", "L", "Z", "N", "P", "I", "S", "G", "F",
            "X", "8"}

\* the symbol strings of length 0 and 1, and every 2-letter prefix alone or
\* followed by a digit
SymbolStrings ==
    {<<>>} \cup {<<a>> : a \in Letters}
           \cup {<<a, b>> \o s : a \in Letters, b \in Letters, s \in {<<>>, <<"8">>}}

\* the bars of the runs that follow a construction
ResolveBars == [i \in 1..3 |-> [datetime |-> i, close |-> <<2, 1, 2>>[i]]]

\* the call of __init__(data, symbol, initial_capital), before its body
InitResolve ==
    /\ pc = "new"
    /\ symbol \in SymbolStrings
    /\ df = ResolveBars
    /\ initial_capital = 20 * MoneyScale
    /\ data = <<>>
    /\ spec = None
    /\ contract_size = 0
    /\ pricetick = 0
    /\ margin_ratio = 0
    /\ commission_rate = 0
    /\ slippage = 0
    /\ cash = 0
    /\ margin = 0
    /\ holdings = 0
    /\ total_asset = <<>>
    /\ trade_records = <<>>
    /\ fast_window = 0
    /\ slow_window = 0
    /\ idx = 0
    /\ charged = 0
    /\ realized = 0
    /\ metrics = None

\* __init__: the contract rules of the symbol's prefix, or the default
resolve ==
    /\ pc = "new"
    /\ spec' = ContractSpec(symbol)
    /\ pc' = "resolved"
    /\ UNCHANGED <<df, data, symbol, initial_capital, contract_size, pricetick,
                   margin_ratio, commission_rate, slippage, cash, margin, holdings,
                   total_asset, trade_records, fast_window, slow_window, idx,
                   charged, realized, metrics>>

\* __init__: the fields; followed for the ticks of whole yuan, the prices
\* of the model
construct ==
    /\ pc = "resolved"
    /\ spec.pricetick % CentiPerYuan = 0
    /\ data' = df
    /\ contract_size' = spec.contract_size
    /\ pricetick' = spec.pricetick \div CentiPerYuan
    /\ margin_ratio' = 10
    /\ commission_rate' = 1
    /\ slippage' = pricetick' * 2
    /\ cash' = initial_capital
    /\ margin' = 0
    /\ holdings' = 0
    /\ total_asset' = <<initial_capital>>
    /\ trade_records' = <<>>
    /\ pc' = "constructed"
    /\ UNCHANGED <<df, symbol, initial_capital, fast_window, slow_window, idx,
                   charged, realized, spec, metrics>>

NextResolve == resolve \/ construct \/ Next

SpecResolve == InitResolve /\ [][NextResolve]_vars

\* C15: construction resolves the contract rules of every symbol string: a
\* symbol whose first two characters are a key of the table gets that entry's
\* multiplier and tick, every other symbol (unknown prefix, fewer than two
\* characters) gets multiplier 10 and tick 1; the engine's multiplier and
\* tick are the resolved ones, and no later operation changes them.
C15_Resolution ==
    /\ [](pc # "new" =>
            /\ spec \in [contract_size : Nat, pricetick : Nat]
            /\ IF Len(symbol) >= 2 /\ <<symbol[1], symbol[2]>> \in DOMAIN futures_specs
               THEN spec = futures_specs[<<symbol[1], symbol[2]>>]
               ELSE spec.contract_size = 10 /\ spec.pricetick = 1 * CentiPerYuan
            /\ pc # "resolved" =>
                  /\ contract_size = spec.contract_size
                  /\ pricetick * CentiPerYuan = spec.pricetick)
    /\ [][pc # "new" =>
            /\ spec' = spec
            /\ pc # "resolved" => contract_size' = contract_size /\ pricetick' = pricetick]_vars

\* a symbol of fewer than two characters has run a backtest that traded
\* under the default rules
C15_Witness ==
    /\ pc = "done"
    /\ Len(symbol) < 2
    /\ contract_size = 10
    /\ pricetick = 1
    /\ trade_records # <<>>


\* C16: a Close of a non-flat position realizes
\* (execPrice - openPrice) * volume * multiplier for a long and
\* (openPrice - execPrice) * volume * multiplier for a short, openPrice being
\* the execution price recorded by the position's Open whatever its value;
\* cash grows by margin + profit - commission, margin becomes 0, the position
\* becomes flat, and one Close record for the whole volume is appended.
\* Stated here on the runs of a configuration the specification admits.
C16_Close ==
    [][ValidConfig /\ IsCloseCall =>
         LET vol == Abs(holdings)
             rec == Last(trade_records')
             profit == IF holdings > 0
                       THEN (rec.price - PositionOpenPrice) * vol * contract_size * MoneyScale
                       ELSE (PositionOpenPrice - rec.price) * vol * contract_size * MoneyScale
             commission == charged' - charged
         IN  /\ holdings # 0
             /\ Appended(trade_records, trade_records')
             /\ rec.action = "close"
             /\ rec.volume = vol
             /\ realized' - realized = profit
             /\ cash' = cash + margin + profit - commission
             /\ margin' = 0
             /\ holdings' = 0]_vars

\* the same, when the Open of the position recorded a price other than 0
C16_OpenPriceNotZero ==
    [][ValidConfig /\ IsCloseCall /\ PositionOpenPrice # 0 =>
         LET vol == Abs(holdings)
             rec == Last(trade_records')
             profit == IF holdings > 0
                       THEN (rec.price - PositionOpenPrice) * vol * contract_size * MoneyScale
                       ELSE (PositionOpenPrice - rec.price) * vol * contract_size * MoneyScale
             commission == charged' - charged
         IN  /\ holdings # 0
             /\ Appended(trade_records, trade_records')
             /\ rec.action = "close"
             /\ rec.volume = vol
             /\ realized' - realized = profit
             /\ cash' = cash + margin + profit - commission
             /\ margin' = 0
             /\ holdings' = 0]_vars


\* C17: an Open that succeeds has size
\* floor(0.9 * cash / (signalPrice * multiplier * marginRatio)); with the
\* execution price of its record, margin = execPrice * size * multiplier *
\* marginRatio and commission = max(execPrice * size * multiplier * rate,
\* minimum commission); cash falls by margin + commission, the margin held
\* grows by margin, holdings become +size for a long and -size for a short,
\* and one Open record is appended.
C17_Open ==
    [][IsOpenCall /\ ClaimedSize(Row.close) > 0 =>
         LET size == ClaimedSize(Row.close)
             rec == Last(trade_records')
             m == rec.price * size * contract_size * margin_ratio
                      * (MoneyScale \div PercentScale)
             fee == rec.price * size * contract_size * commission_rate
             c == IF fee > 5 * MoneyScale THEN fee ELSE 5 * MoneyScale
         IN  /\ Appended(trade_records, trade_records')
             /\ rec.action = "open"
             /\ rec.volume = size
             /\ cash' = cash - (m + c)
             /\ margin' = margin + m
             /\ charged' = charged + c
             /\ holdings' = IF rec.direction = "long" THEN size ELSE -size]_vars

\* a short was opened with margin, at a commission above the minimum
C17_Witness ==
    /\ pc = "update"
    /\ holdings < 0
    /\ margin > 0
    /\ Last(trade_records).action = "open"
    /\ Last(trade_records).commission > 5 * MoneyScale


\* the signal price moved by the slippage against the trade of a record:
\* up for a buy (Open of a long, Close of a short), down for a sell
SlippedPrice(rec) ==
    IF (rec.action = "open") = (rec.direction = "long")
    THEN Row.close + slippage
    ELSE Row.close - slippage

\* C18: the execution price of every record appended to the trade log is a
\* multiple of the price tick, and no multiple of the tick is nearer to the
\* slipped price; with tick 1 and slippage 2 an Open of a long executes at
\* close + 2.
C18_TickAligned ==
    [][trade_records' # trade_records =>
         LET rec == Last(trade_records')
         IN  /\ rec.price % pricetick = 0
             /\ 2 * Abs(rec.price - SlippedPrice(rec)) <= pricetick
             /\ (pricetick = 1 /\ slippage = 2 /\ rec.action = "open" /\ rec.direction = "long")
                    => rec.price = Row.close + 2]_vars

\* a long was opened at this bar at a price that rounding moved
C18_Witness ==
    /\ pc = "update"
    /\ trade_records # <<>>
    /\ Last(trade_records).action = "open"
    /\ Last(trade_records).direction = "long"
    /\ Last(trade_records).datetime = Row.datetime
    /\ Last(trade_records).price # Row.close + slippage


\* the bars of a trading day: daily bars
BarsPerDay == 1

\* the trading day of a bar
DayOf(datetime) == (datetime - 1) \div BarsPerDay + 1

\* the symbol class with the closing surcharge: rebar
Designated == Len(symbol) >= 2 /\ <<symbol[1], symbol[2]>> = <<"R", "B">>

\* a Close charges max(execPrice * volume * multiplier * rate, minimum),
\* the rate being base * 5 when surcharged and the base rate otherwise
CloseCharges(surcharged) ==
    LET rec == Last(trade_records')
        rate == IF surcharged THEN commission_rate * 5 ELSE commission_rate
        fee == rec.price * rec.volume * contract_size * rate
    IN  charged' - charged = (IF fee > 5 * MoneyScale THEN fee ELSE 5 * MoneyScale)

\* C19: a Close charges max(execPrice * volume * multiplier * rate, minimum
\* commission), with rate = base rate * surcharge only when the symbol is of
\* the designated class and the position is closed on the day it was opened,
\* and the base rate otherwise.  Stated here on the runs of a configuration
\* the specification admits.
C19_CloseCommission ==
    [][ValidConfig /\ IsCloseCall =>
         CloseCharges(/\ Designated
                      /\ DayOf(Last(trade_records).datetime) = DayOf(Row.datetime))]_vars

\* what _close charges: the surcharge on every Close of the designated class
C19_EveryClose ==
    [][IsCloseCall => CloseCharges(Designated)]_vars


\* the number of records of the trade log with an action
CountOf(action) ==
    Cardinality({i \in 1..Len(trade_records) : trade_records[i].action = action})

\* C20: the trade log only grows by appending, and at every moment its
\* records alternate Open, Close, Open, ... from an Open; every Close has
\* the direction and the volume of the Open just before it; and the Opens
\* outnumber the Closes by 1 when the position is not flat and by 0 when it
\* is flat.
C20_TradeLog ==
    /\ [](/\ \A i \in 1..Len(trade_records) :
               trade_records[i].action = (IF i % 2 = 1 THEN "open" ELSE "close")
          /\ \A i \in 1..Len(trade_records) :
               i % 2 = 0 =>
                  /\ trade_records[i].direction = trade_records[i - 1].direction
                  /\ trade_records[i].volume = trade_records[i - 1].volume
          /\ CountOf("open") - CountOf("close") = (IF holdings # 0 THEN 1 ELSE 0))
    /\ [][trade_records' = trade_records \/ Appended(trade_records, trade_records')]_vars

\* a short was opened and closed, and a long is open after it
C20_Witness ==
    /\ Len(trade_records) >= 3
    /\ trade_records[1].direction = "short"
    /\ trade_records[2].action = "close"
    /\ holdings > 0


\* C21: on the runs of a configuration the specification admits (positive
\* capital, margin ratio in (0, 1], commission rate and slippage not
\* negative, fast window below slow window) cash is never negative, after
\* every Open and after every Close.
C21_CashNotNegative ==
    ValidConfig /\ margin_ratio \in 1..PercentScale => cash >= 0


\* C22: on a reversal bar the Open that follows the Close is sized from the
\* cash the Close has left, floor(0.9 * cash / (price * multiplier * ratio));
\* if that size is <= 0 the bar ends flat with the Close as its only record;
\* and at every bar that finds the position flat and the two averages
\* different, a later bar after such a Close included, the run calls _open.
C22_Reversal ==
    /\ [][pc = "open" /\ IsOpenCall =>
             /\ Last(trade_records).action = "close"
             /\ Last(trade_records).datetime = Row.datetime
             /\ IF ClaimedSize(Row.close) > 0
                THEN /\ Appended(trade_records, trade_records')
                     /\ Last(trade_records').action = "open"
                     /\ Last(trade_records').volume = ClaimedSize(Row.close)
                     /\ Abs(holdings') = ClaimedSize(Row.close)
                ELSE /\ trade_records' = trade_records
                     /\ holdings' = 0]_vars
    /\ [][pc = "bar" /\ holdings = 0 /\ Row.ma_fast # Row.ma_slow => IsOpenCall]_vars
    /\ [](pc = "bar" /\ holdings = 0 /\ Row.ma_fast # Row.ma_slow /\ Abs(cash) <= MaxCash
             => ENABLED OpenStep)

\* a reversal bar ended flat with its Close alone, and a later bar with
\* different averages has called _open again
C22_Witness ==
    /\ pc = "update"
    /\ holdings = 0
    /\ trade_records # <<>>
    /\ Last(trade_records).action = "close"
    /\ Last(trade_records).datetime < Row.datetime
    /\ Row.ma_fast # Row.ma_slow


\* ---------------------------------------- _close called on a finished run
\* a further call of _close(price, row), made by a caller on the engine of
\* a finished run whose position is flat
DirectClose ==
    /\ pc = "done"
    /\ holdings = 0
    /\ _close(MaxPrice, [datetime |-> Len(df) + 1, close |-> MaxPrice])
    /\ pc' = "closed"
    /\ UNCHANGED <<df, data, config, total_asset, idx>>

NextDirect == Next \/ DirectClose

SpecDirect == Init /\ [][NextDirect]_vars

\* C23: in every state the margin held is 0 when the position is flat, and
\* while a position is open it is the margin of that position's Open alone,
\* execPrice * volume * multiplier * ratio of the last record; a _close
\* called while flat changes nothing of the account, the log or the curve.
C23_Margin ==
    /\ [](holdings = 0 => margin = 0)
    /\ [](holdings # 0 =>
             /\ Last(trade_records).action = "open"
             /\ Last(trade_records).volume = Abs(holdings)
             /\ margin = Last(trade_records).price * Last(trade_records).volume
                             * contract_size * margin_ratio * (MoneyScale \div PercentScale))
    /\ [][holdings = 0 /\ pc' = "closed" =>
             UNCHANGED <<cash, margin, holdings, trade_records, total_asset,
                         charged, realized>>]_vars

\* the second position of a run is open, after the first was closed with a
\* margin other than 0
C23_Witness ==
    /\ Len(trade_records) >= 3
    /\ holdings # 0
    /\ margin # 0
    /\ trade_records[1].price # 0

\* _close was called on a finished run that had traded and was flat
C23_FlatCloseReached ==
    pc = "closed" /\ holdings = 0 /\ trade_records # <<>>

=============================================================================
